---------------------------- MODULE Spec2Model ----------------------------
(***************************************************************************)
(* A model of the phishing-detection backend: the Flask handlers of        *)
(* backend/app.py (predict, fetch_gmail and their helpers predict_body,    *)
(* analyze_sender, extract_body, get_gmail_service), the mail poller of    *)
(* backend/gmail_fetch.py (fetch_latest_email_text) and the credential     *)
(* handling of backend/gmail_test.py (main).                               *)
(*                                                                         *)
(* Python strings are sequences of one-character strings, so that regular  *)
(* expression search, split, count and lower are computed, not assumed.    *)
(***************************************************************************)
EXTENDS Integers, Sequences, FiniteSets, TLC

VARIABLES
    pc,         \* position of the running handler ("idle" between requests)
    request,    \* input of the running handler
    response,   \* what the last finished handler returned
    tokenFile,  \* content of token.json, or Absent
    unread,     \* ids of the mailbox carrying the UNREAD label
    history,    \* ids returned by successful fetch_latest_email_text calls, not labelled unread since
    pending,    \* ids the running fetch_latest_email_text call has appended and marked read
    calls,      \* per request: how often each dependency was called
    local,      \* local variables of the running handler
    auth        \* what the last get_gmail_service / main credential step did

vars == <<pc, request, response, tokenFile, unread, history, pending, calls, local, auth>>

gmailVars == <<tokenFile, unread, history, pending, calls, local, auth>>

-----------------------------------------------------------------------------
(* Bounds *)

\* most labels of a sender domain ("a.b.c.d.e" has 5)
MaxLabels == 5

\* class probabilities are counted in units of 1 / (ConfidenceSteps * ProbSub):
\* ProbSub units make one hundredth of a percent
ProbSub == 4

\* most parts in the "parts" list of a payload or of a multipart part
MaxParts == 2

\* messages in the mail account, with ids 1..MaxMsgs (a larger id is more recent)
MaxMsgs == 3

\* largest n a caller passes to fetch_latest_email_text
MaxN == 2

-----------------------------------------------------------------------------
(* Python string operations on sequences of characters *)

Range(s) == {s[i] : i \in 1..Len(s)}

\* str.lower(), on the characters the inputs use
LowerChar(c) ==
    CASE c = "G" -> "g"
      [] c = "H" -> "h"
      [] c = "F" -> "f"
      [] c = "R" -> "r"
      [] c = "O" -> "o"
      [] c = "M" -> "m"
      [] c = "T" -> "t"
      [] OTHER -> c

Lower(s) == [i \in 1..Len(s) |-> LowerChar(s[i])]

\* `sub in s` for str operands, and re.search of a literal
Contains(sub, s) ==
    \E i \in 1..(Len(s) - Len(sub) + 1) : SubSeq(s, i, i + Len(sub) - 1) = sub

\* `c in s` for one character
HasChar(c, s) == \E i \in 1..Len(s) : s[i] = c

\* s.count(c) for one character
Count(c, s) == Cardinality({i \in 1..Len(s) : s[i] = c})

\* s.split(c)[-1]: what follows the last c, the whole of s when c does not occur
LastField(c, s) ==
    IF HasChar(c, s)
    THEN LET last == CHOOSE i \in 1..Len(s) :
                         s[i] = c /\ \A j \in (i + 1)..Len(s) : s[j] # c
         IN  SubSeq(s, last + 1, Len(s))
    ELSE s

\* re.search(r"<(.+?)>", s): the leftmost "<" followed by one or more characters
\* and then ">", the group being the shortest such run.  <<>> when nothing matches.
AngleMatches(s) ==
    {i \in 1..Len(s) : s[i] = "<" /\ \E j \in (i + 2)..Len(s) : s[j] = ">"}

HasAngleAddr(s) == AngleMatches(s) # {}

AngleAddr(s) ==
    LET i == CHOOSE k \in AngleMatches(s) : \A m \in AngleMatches(s) : k <= m
        j == CHOOSE k \in (i + 2)..Len(s) :
                 s[k] = ">" /\ \A m \in (i + 2)..(k - 1) : s[m] # ">"
    IN  SubSeq(s, i + 1, j - 1)

-----------------------------------------------------------------------------
(* Words the inputs are built from *)

w_from     == <<"F", "r", "o", "m">>
w_FROM     == <<"F", "R", "O", "M">>
w_from_lc  == <<"f", "r", "o", "m">>
w_To       == <<"T", "o">>
w_unknown  == <<"u", "n", "k", "n", "o", "w", "n">>
w_text     == <<"t", "e", "x", "t">>

w_paypa1   == <<"p", "a", "y", "p", "a", "1">>
w_netfl1x  == <<"n", "e", "t", "f", "l", "1", "x">>
w_g00gle   == <<"g", "0", "0", "g", "l", "e">>
w_faceb00k == <<"f", "a", "c", "e", "b", "0", "0", "k">>

w_xyz == <<"x", "y", "z">>
w_top == <<"t", "o", "p">>
w_ru  == <<"r", "u">>
w_cn  == <<"c", "n">>
w_com == <<"c", "o", "m">>

w_google    == <<"g", "o", "o", "g", "l", "e">>
w_microsoft == <<"m", "i", "c", "r", "o", "s", "o", "f", "t">>
w_github    == <<"g", "i", "t", "h", "u", "b">>
w_apple     == <<"a", "p", "p", "l", "e">>
w_linkedin  == <<"l", "i", "n", "k", "e", "d", "i", "n">>

w_GitHub   == <<"G", "i", "t", "H", "u", "b">>
w_mypaypa1 == <<"m", "y", "p", "a", "y", "p", "a", "1">>
w_bob      == <<"b", "o", "b">>

Dot(a, b) == a \o <<".">> \o b

-----------------------------------------------------------------------------
(* analyze_sender: app.py 71-97 *)

\* the four typosquatting keywords of the regular expression of rule 1
TyposquatKeywords == {w_paypa1, w_netfl1x, w_g00gle, w_faceb00k}

SuspiciousTLDs == {w_xyz, w_top, w_ru, w_cn}

whitelist ==
    {Dot(w_google, w_com), Dot(w_microsoft, w_com), Dot(w_github, w_com),
     Dot(w_apple, w_com), Dot(w_linkedin, w_com)}

\* the flag strings; the source's whitelist flag starts with a check-mark emoji
FlagTyposquat  == "Possible typosquatting"
FlagTLD        == "Suspicious TLD"
FlagSubdomains == "Too many subdomains"
FlagWhitelist  == "Whitelisted domain"
FlagNone       == "None"

\* next((h["value"] for h in headers if h["name"].lower() == "from"), "")
SenderOf(headers) ==
    LET hits == {i \in 1..Len(headers) : Lower(headers[i].name) = w_from_lc}
    IN  IF hits = {} THEN <<>>
        ELSE headers[CHOOSE i \in hits : \A j \in hits : i <= j].value

EmailOf(sender) == IF HasAngleAddr(sender) THEN AngleAddr(sender) ELSE sender

DomainOf(email) ==
    IF HasChar("@", email) THEN Lower(LastField("@", email)) ELSE w_unknown

Rule1(domain) == \E k \in TyposquatKeywords : Contains(k, domain)

Rule2(domain) == LastField(".", domain) \in SuspiciousTLDs

Rule3(domain) == Count(".", domain) > 3

\* a faulty rule 4: the domain ends with a whitelisted domain
Rule4Suffix(domain) ==
    \E w \in whitelist :
        /\ Len(domain) >= Len(w)
        /\ SubSeq(domain, Len(domain) - Len(w) + 1, Len(domain)) = w

Rule4(domain) == domain \in whitelist

\* a faulty return: the flags as they are, without the sentinel
FlagsOrNoneEmpty(flags) == flags

\* flags if flags else ["None"]
FlagsOrNone(flags) == IF flags # <<>> THEN flags ELSE <<FlagNone>>

analyze_sender(headers) ==
    LET sender == SenderOf(headers)
        email  == EmailOf(sender)
        domain == DomainOf(email)
        f1 == IF Rule1(domain) THEN <<FlagTyposquat>> ELSE <<>>
        f2 == IF Rule2(domain) THEN Append(f1, FlagTLD) ELSE f1
        f3 == IF Rule3(domain) THEN Append(f2, FlagSubdomains) ELSE f2
        f4 == IF Rule4(domain) THEN Append(f3, FlagWhitelist) ELSE f3
    IN  [sender |-> email, domain |-> domain, flags |-> FlagsOrNone(f4)]

-----------------------------------------------------------------------------
(* Values shared by the specifications *)

NoResponse == [status |-> 0]

Absent == [exists |-> FALSE]

NoCalls ==
    [service |-> 0, list |-> 0, get |-> 0, extract |-> 0, analyze |-> 0,
     predict |-> 0, modify |-> 0]

NoLocal == [handler |-> "none"]

NoAuth == [by |-> "none"]

NoRequest == [call |-> "none"]

\* the mail account and the credential file play no part
GmailQuiet ==
    /\ tokenFile = Absent
    /\ unread = {}
    /\ history = {}
    /\ pending = {}
    /\ calls = NoCalls
    /\ local = NoLocal
    /\ auth = NoAuth

-----------------------------------------------------------------------------
(* SpecSender: analyze_sender applied to header lists *)

LabelWords == {w_GitHub, w_com, w_xyz, w_mypaypa1}

RECURSIVE Domains(_)
Domains(k) ==
    IF k = 1 THEN LabelWords
    ELSE {Dot(d, w) : d \in Domains(k - 1), w \in LabelWords}

AllDomains == UNION {Domains(k) : k \in 1..MaxLabels}

\* From values on a domain: a bare address, a display name with the address in
\* angle brackets, or text without "@"
FromValues(d) ==
    {w_bob \o <<"@">> \o d,
     w_bob \o <<" ", "<">> \o w_bob \o <<"@">> \o d \o <<">">>,
     d}

\* header lists carrying a From value: alone, or after another header and
\* with its name in capitals
HeaderLists(v) ==
    {<<[name |-> w_from, value |-> v]>>,
     <<[name |-> w_To, value |-> w_bob \o <<"@">> \o Dot(w_github, w_com)],
       [name |-> w_FROM, value |-> v]>>}

InitSender ==
    /\ pc = "sender_idle"
    /\ request = <<>>
    /\ response = NoResponse
    /\ GmailQuiet

\* a caller hands a message's header list to analyze_sender
CallAnalyzeSender ==
    /\ pc = "sender_idle"
    /\ \/ request' = <<>>
       \/ \E v \in {<<>>} : request' \in HeaderLists(v)
       \/ \E d \in AllDomains : \E v \in FromValues(d) : request' \in HeaderLists(v)
    /\ pc' = "sender_call"
    /\ UNCHANGED <<response, gmailVars>>

DoAnalyzeSender ==
    /\ pc = "sender_call"
    /\ response' = analyze_sender(request)
    /\ pc' = "sender_done"
    /\ UNCHANGED <<request, gmailVars>>

NextSender == CallAnalyzeSender \/ DoAnalyzeSender

SpecSender == InitSender /\ [][NextSender]_vars

SuspicionFlags == {FlagTyposquat, FlagTLD, FlagSubdomains}

RequestDomain == DomainOf(EmailOf(SenderOf(request)))

AnyRuleFires ==
    LET domain == RequestDomain
    IN  Rule1(domain) \/ Rule2(domain) \/ Rule3(domain) \/ Rule4(domain)

\* C4: the flags list analyze_sender returns is never empty; it is exactly
\* ["None"] when none of the four rules fires and does not contain "None" when
\* one does.
C4_FlagsNeverEmpty ==
    pc = "sender_done" =>
        /\ response.flags # <<>>
        /\ ~AnyRuleFires => response.flags = <<FlagNone>>
        /\ AnyRuleFires => FlagNone \notin Range(response.flags)

\* C4 witness: a sender was analysed for which more than one rule fired.
C4_Witness ==
    /\ pc = "sender_done"
    /\ AnyRuleFires
    /\ Len(response.flags) >= 2

\* C9 as stated: some From header gets the whitelist flag together with a
\* suspicion flag, so a caller about to call analyze_sender can hand it one.
C9_Original ==
    pc = "sender_idle" =>
        \E d \in AllDomains : \E v \in FromValues(d) : \E h \in HeaderLists(v) :
            LET flags == Range(analyze_sender(h).flags)
            IN  FlagWhitelist \in flags /\ flags \cap SuspicionFlags # {}

\* C9 amended: with the lists of the source the whitelist flag never comes with
\* a suspicion flag: no whitelisted domain triggers rule 1, 2 or 3, and no
\* analysed header gets both.
C9_Exclusive ==
    /\ \A w \in whitelist : ~Rule1(w) /\ ~Rule2(w) /\ ~Rule3(w)
    /\ pc = "sender_done" =>
           ~(/\ FlagWhitelist \in Range(response.flags)
             /\ Range(response.flags) \cap SuspicionFlags # {})

\* C9 witness: a whitelisted sender was analysed.
C9_Witness ==
    /\ pc = "sender_done"
    /\ response.flags = <<FlagWhitelist>>
    /\ response.domain = Dot(w_github, w_com)

-----------------------------------------------------------------------------
(* predict_body: app.py 57-69 *)

\* confidence is counted in hundredths of a percent: round(p * 100, 2) has
\* 100 * 10^2 steps between 0 and 100
ConfidenceSteps == 10000

ProbScale == ConfidenceSteps * ProbSub

\* LABEL_MAP
LABEL_MAP == <<"Legitimate", "Phishing">>

\* softmax over two logits: two probabilities that sum to one.  probs[1] is
\* class 0 and probs[2] is class 1 (TLA+ sequences start at 1).
ProbPairs == {<<p, ProbScale - p>> : p \in 0..ProbScale}

\* numpy argmax: the first index of the largest entry, as a class number
argmax(probs) == IF probs[1] >= probs[2] THEN 0 ELSE 1

\* round(float(p) * 100, 2) in hundredths of a percent: the nearest step, an
\* exact half going to the even step
Round2(p) ==
    LET q == p \div ProbSub
        r == p % ProbSub
    IN  IF 2 * r < ProbSub THEN q
        ELSE IF 2 * r > ProbSub THEN q + 1
        ELSE IF q % 2 = 0 THEN q ELSE q + 1

\* a faulty predict_body: the confidence is the positive class's probability
predict_body_positive(text, probs) ==
    [prediction |-> LABEL_MAP[argmax(probs) + 1], confidence |-> Round2(probs[2])]

predict_body(text, probs) ==
    LET pred_idx == argmax(probs)
    IN  [prediction |-> LABEL_MAP[pred_idx + 1],
         confidence |-> Round2(probs[pred_idx + 1])]

-----------------------------------------------------------------------------
(* predict: app.py 117-126 *)

JNull      == [kind |-> "null"]
JBool(b)   == [kind |-> "bool", val |-> b]
JNumber(n) == [kind |-> "number", val |-> n]
JString(s) == [kind |-> "string", val |-> s]
JArray(a)  == [kind |-> "array", val |-> a]
\* an object: a function from its keys to JSON values
JObject(f) == [kind |-> "object", val |-> f]

\* bool(data)
Truthy(data) ==
    CASE data.kind = "null"   -> FALSE
      [] data.kind = "bool"   -> data.val
      [] data.kind = "number" -> data.val # 0
      [] data.kind = "string" -> data.val # <<>>
      [] data.kind = "array"  -> data.val # <<>>
      [] data.kind = "object" -> DOMAIN data.val # {}

\* `key in data` raises TypeError for data that is no container
InRaises(data) == data.kind \in {"null", "bool", "number"}

\* `key in data`: a key of a dict, an element of a list, a substring of a str
In(key, data) ==
    CASE data.kind = "object" -> key \in DOMAIN data.val
      [] data.kind = "array"  -> \E i \in 1..Len(data.val) : data.val[i] = JString(key)
      [] data.kind = "string" -> Contains(key, data.val)

\* data[key] raises TypeError for a list or a str indexed by a str
GetItemRaises(key, data) == data.kind # "object"

\* the tokenizer accepts a str and raises ValueError for a number or None
TokenizerRaises(text) == text.kind # "string"

BadRequest == [status |-> 400, keys |-> {"error"}, error |-> "No text provided"]

\* an exception that leaves the view function: Flask answers 500 with its own
\* error page, which is no JSON object
InternalServerError == [status |-> 500, keys |-> {}]

Ok(result) ==
    [status |-> 200, keys |-> {"prediction", "confidence"},
     prediction |-> result.prediction, confidence |-> result.confidence]

predict(data, probs) ==
    IF ~Truthy(data) THEN BadRequest
    ELSE IF InRaises(data) THEN InternalServerError
    ELSE IF ~In(w_text, data) THEN BadRequest
    ELSE IF GetItemRaises(w_text, data) THEN InternalServerError
    ELSE IF TokenizerRaises(data.val[w_text]) THEN InternalServerError
    ELSE Ok(predict_body(data.val[w_text].val, probs))

\* whether predict reaches the classifier with this body
ReachesClassifier(data) ==
    /\ Truthy(data)
    /\ ~InRaises(data)
    /\ In(w_text, data)
    /\ ~GetItemRaises(w_text, data)
    /\ ~TokenizerRaises(data.val[w_text])

-----------------------------------------------------------------------------
(* SpecPredict: POST /predict with JSON bodies *)

w_a_text == <<"a", " ">> \o w_text

JsonBodies ==
    {JNull, JBool(TRUE), JBool(FALSE), JNumber(0), JNumber(5),
     JString(<<>>), JString(w_bob), JString(w_text), JString(w_a_text),
     JArray(<<>>), JArray(<<JString(w_bob)>>), JArray(<<JString(w_text)>>),
     JObject(<<>>),
     JObject([k \in {w_bob} |-> JNumber(5)]),
     JObject([k \in {w_text} |-> JString(w_bob)]),
     JObject([k \in {w_text} |-> JString(<<>>)]),
     JObject([k \in {w_text} |-> JNumber(5)]),
     JObject([k \in {w_text, w_bob} |-> JString(w_a_text)])}

NoProbs == <<0, 0>>

InitPredict ==
    /\ pc = "predict_idle"
    /\ request = JNull
    /\ response = NoResponse
    /\ tokenFile = Absent
    /\ unread = {}
    /\ history = {}
    /\ pending = {}
    /\ calls = NoCalls
    /\ local = [handler |-> "predict", probs |-> NoProbs]
    /\ auth = NoAuth

\* a client posts a JSON body
PostPredict ==
    /\ pc = "predict_idle"
    /\ request' \in JsonBodies
    /\ pc' = "predict_call"
    /\ UNCHANGED <<response, tokenFile, unread, history, pending, calls, local, auth>>

\* the handler runs; the model's probabilities are read only when the body
\* reaches the classifier
DoPredict ==
    /\ pc = "predict_call"
    /\ \E probs \in IF ReachesClassifier(request) THEN ProbPairs ELSE {NoProbs} :
           /\ response' = predict(request, probs)
           /\ local' = [local EXCEPT !.probs = probs]
    /\ pc' = "predict_done"
    /\ UNCHANGED <<request, tokenFile, unread, history, pending, calls, auth>>

NextPredict == PostPredict \/ DoPredict

SpecPredict == InitPredict /\ [][NextPredict]_vars

\* the body is a JSON object with a "text" key
HasTextField(data) == data.kind = "object" /\ w_text \in DOMAIN data.val

\* C1: every JSON body that is not an object with a "text" key is answered with
\* status 400 and an "error" field.
C1_MissingTextIs400 ==
    (pc = "predict_done" /\ ~HasTextField(request)) =>
        (response.status = 400 /\ "error" \in response.keys)

ChosenProb == IF response.prediction = LABEL_MAP[1] THEN local.probs[1] ELSE local.probs[2]

OtherProb == IF response.prediction = LABEL_MAP[1] THEN local.probs[2] ELSE local.probs[1]

Classified == pc = "predict_done" /\ response.status = 200

\* C2 as stated: the confidence is exactly the chosen label's probability
\* times 100, and is never the probability of the other class times 100.
C2_Original ==
    Classified =>
        /\ response.prediction \in Range(LABEL_MAP)
        /\ ChosenProb >= OtherProb
        /\ response.confidence * ProbSub = ChosenProb
        /\ response.confidence * ProbSub # OtherProb
        /\ response.confidence \in 0..ConfidenceSteps

\* C2 amended: the label is a class of maximum probability and the confidence
\* is the chosen label's probability times 100 rounded to two decimals: within
\* half a hundredth of it, in [0,100], and not below the other class's
\* probability times 100 by more than that rounding.
C2_RoundedChosenConfidence ==
    Classified =>
        /\ response.prediction \in Range(LABEL_MAP)
        /\ ChosenProb >= OtherProb
        /\ 2 * (response.confidence * ProbSub - ChosenProb) <= ProbSub
        /\ 2 * (ChosenProb - response.confidence * ProbSub) <= ProbSub
        /\ 2 * (OtherProb - response.confidence * ProbSub) <= ProbSub
        /\ response.confidence \in 0..ConfidenceSteps

\* C2 witness: a text was classified Legitimate with a rounded confidence.
C2_Witness ==
    /\ Classified
    /\ response.prediction = "Legitimate"
    /\ ChosenProb > OtherProb
    /\ response.confidence * ProbSub # ChosenProb

-----------------------------------------------------------------------------
(* extract_body: app.py 99-108, and get_body: gmail_fetch.py 37-44 *)

\* base64.urlsafe_b64decode(data) raises binascii.Error: "aGk" lacks padding
B64Raises(data) == data = "aGk"

\* base64.urlsafe_b64decode(data).decode("utf-8", errors="ignore"), on the data
\* the inputs use; "_w==" is the byte 0xFF, which is no UTF-8 and is dropped
B64Text(data) ==
    CASE data = "aGk="  -> <<"h", "i">>
      [] data = "Ynll"  -> <<"b", "y", "e">>
      [] data = "PGI-"  -> <<"<", "b", ">">>
      [] data = "_w=="  -> <<>>
      [] data = ""      -> <<>>

Returned(text) == [raised |-> FALSE, text |-> text]

Raised(exception) == [raised |-> TRUE, exception |-> exception]

Decode(data) ==
    IF B64Raises(data) THEN Raised("binascii.Error") ELSE Returned(B64Text(data))

\* the top-level parts whose mimeType is text/plain
PlainParts(payload) ==
    {i \in 1..Len(payload.parts) : payload.parts[i].mimeType = "text/plain"}

FirstPlainPart(payload) ==
    payload.parts[CHOOSE i \in PlainParts(payload) : \A j \in PlainParts(payload) : i <= j]

\* lines 106-108 of app.py, 42-44 of gmail_fetch.py: the payload's own body
OwnBody(payload) ==
    IF "body" \in DOMAIN payload /\ "data" \in DOMAIN payload.body
    THEN Decode(payload.body.data)
    ELSE Returned(<<>>)

extract_body(payload) ==
    IF "parts" \in DOMAIN payload /\ PlainParts(payload) # {}
    THEN LET part == FirstPlainPart(payload)
             \* part["body"].get("data", "")
             data == IF "data" \in DOMAIN part.body THEN part.body.data ELSE ""
         IN  Decode(data)
    ELSE OwnBody(payload)

get_body(payload) ==
    IF "parts" \in DOMAIN payload /\ PlainParts(payload) # {}
    THEN LET part == FirstPlainPart(payload)
         IN  \* part["body"]["data"]
             IF "data" \in DOMAIN part.body THEN Decode(part.body.data)
             ELSE Raised("KeyError")
    ELSE OwnBody(payload)

-----------------------------------------------------------------------------
(* SpecBody: extract_body and get_body applied to payload trees *)

Leaf(mimeType, data) == [mimeType |-> mimeType, body |-> [size |-> 1, data |-> data]]

EmptyLeaf(mimeType) == [mimeType |-> mimeType, body |-> [size |-> 0]]

Multipart(mimeType, parts) ==
    [mimeType |-> mimeType, body |-> [size |-> 0], parts |-> parts]

LeafParts == {Leaf("text/plain", "aGk="), EmptyLeaf("text/plain"), Leaf("text/html", "PGI-")}

PartLists(S) == UNION {[1..n -> S] : n \in 1..MaxParts}

\* a part of the payload: a leaf, or a multipart part holding leaves
NestedParts ==
    LeafParts \cup {Multipart("multipart/alternative", ps) : ps \in PartLists(LeafParts)}

InitBody ==
    /\ pc = "body_idle"
    /\ request = [body |-> [size |-> 0]]
    /\ response = NoResponse
    /\ GmailQuiet

\* a caller hands over the payload of a message: empty, a single body, or a
\* multipart payload, with or without data of its own
CallBody ==
    /\ pc = "body_idle"
    /\ \/ request' \in {[body |-> [size |-> 0]]} \cup LeafParts
       \/ \E n \in 1..MaxParts : \E ps \in [1..n -> NestedParts] :
              request' \in {Multipart("multipart/mixed", ps),
                            [mimeType |-> "multipart/mixed",
                             body |-> [size |-> 1, data |-> "Ynll"],
                             parts |-> ps]}
    /\ pc' = "body_call"
    /\ UNCHANGED <<response, gmailVars>>

DoExtractBody ==
    /\ pc = "body_call"
    /\ response' = extract_body(request)
    /\ pc' = "extract_body_done"
    /\ UNCHANGED <<request, gmailVars>>

DoGetBody ==
    /\ pc = "body_call"
    /\ response' = get_body(request)
    /\ pc' = "get_body_done"
    /\ UNCHANGED <<request, gmailVars>>

NextBody == CallBody \/ DoExtractBody \/ DoGetBody

SpecBody == InitBody /\ [][NextBody]_vars

NoPart == [mimeType |-> "none"]

\* the first text/plain part of a part list in depth-first order
RECURSIVE FirstPlainDepthFirst(_)
FirstPlainDepthFirst(parts) ==
    IF parts = <<>> THEN NoPart
    ELSE LET part == Head(parts)
             below == IF "parts" \in DOMAIN part
                      THEN FirstPlainDepthFirst(part.parts) ELSE NoPart
         IN  IF part.mimeType = "text/plain" THEN part
             ELSE IF below # NoPart THEN below
             ELSE FirstPlainDepthFirst(Tail(parts))

\* C5: for a payload whose part tree holds a text/plain part at any depth,
\* extract_body and get_body return the decoded data of the first text/plain
\* part in depth-first order (stated for a first part that carries data).
C5_DepthFirst ==
    (/\ pc \in {"extract_body_done", "get_body_done"}
     /\ "parts" \in DOMAIN request
     /\ FirstPlainDepthFirst(request.parts) # NoPart
     /\ "data" \in DOMAIN FirstPlainDepthFirst(request.parts).body) =>
        response = Returned(B64Text(FirstPlainDepthFirst(request.parts).body.data))

-----------------------------------------------------------------------------
(* get_gmail_service: app.py 43-52 and gmail_fetch.py 11-20 *)

\* SCOPES of the three programs
AppScope        == "gmail.readonly"
GmailFetchScope == "gmail.modify"
GmailTestScope  == "gmail.readonly"

\* what flow.run_local_server can do: the user denies consent (or
\* credentials.json is missing) and it raises, or it returns a credential,
\* with or without a refresh token
NoFlow == [ran |-> FALSE]

FlowOutcomes ==
    {[ran |-> TRUE, granted |-> FALSE]} \cup
    {[ran |-> TRUE, granted |-> TRUE, refresh_token |-> r] : r \in BOOLEAN}

\* creds.to_json() of a credential the flow has just returned, as written to
\* token.json; writer records the program that wrote it
NewToken(scope, flow, who) ==
    [exists |-> TRUE, expired |-> FALSE, refresh_token |-> flow.refresh_token,
     scope |-> scope, writer |-> who]

\* creds.valid of the credential loaded from token.json
Valid(file) == file.exists /\ ~file.expired

\* a faulty test: the stored credential is never trusted
NeedsLoginAlways(file) == TRUE

\* not creds or not creds.valid
NeedsLogin(file) == ~file.exists \/ ~Valid(file)

\* The result: whether it raised, token.json afterwards, and what it did
\* ("reuse" the stored credential, or run the consent "flow").
get_gmail_service(file, scope, who, flow) ==
    IF NeedsLogin(file)
    THEN IF flow.granted
         THEN [raised |-> FALSE, file |-> NewToken(scope, flow, who),
               how |-> "flow", wrote |-> TRUE, scope |-> scope]
         ELSE [raised |-> TRUE, file |-> file,
               how |-> "flow", wrote |-> FALSE, scope |-> ""]
    ELSE [raised |-> FALSE, file |-> file,
          how |-> "reuse", wrote |-> FALSE, scope |-> file.scope]

\* the flow is consulted only when the code reaches it
FlowChoices(file) == IF NeedsLogin(file) THEN FlowOutcomes ELSE {NoFlow}

AuthRecord(who, file, r) ==
    [by |-> who, pre |-> file, post |-> r.file, how |-> r.how,
     wrote |-> r.wrote, raised |-> r.raised]

-----------------------------------------------------------------------------
(* main: gmail_test.py 11-28, the credential steps *)

\* creds.refresh(Request()): the token endpoint answers, or it raises RefreshError
RefreshOutcomes == {[ok |-> TRUE], [ok |-> FALSE]}

\* creds and creds.expired and creds.refresh_token
CanRefresh(file) == file.exists /\ file.expired /\ file.refresh_token

gmail_test_credentials(file, flow, refresh) ==
    IF NeedsLogin(file)
    THEN IF CanRefresh(file)
         THEN IF refresh.ok
              THEN [raised |-> FALSE,
                    file |-> [file EXCEPT !.expired = FALSE, !.writer = "gmail_test"],
                    how |-> "refresh", wrote |-> TRUE, scope |-> file.scope]
              ELSE [raised |-> TRUE, file |-> file,
                    how |-> "refresh", wrote |-> FALSE, scope |-> ""]
         ELSE IF flow.granted
              THEN [raised |-> FALSE, file |-> NewToken(GmailTestScope, flow, "gmail_test"),
                    how |-> "flow", wrote |-> TRUE, scope |-> GmailTestScope]
              ELSE [raised |-> TRUE, file |-> file,
                    how |-> "flow", wrote |-> FALSE, scope |-> ""]
    ELSE [raised |-> FALSE, file |-> file,
          how |-> "reuse", wrote |-> FALSE, scope |-> file.scope]

-----------------------------------------------------------------------------
(* The mail account behind the Gmail API *)

MsgIds == 1..MaxMsgs

w_hi_amp_bye == <<"h", "i", " ", "&", "a", "m", "p", ";", " ", "b", "y", "e">>

Header(name, value) == [name |-> name, value |-> value]

\* Three messages as users().messages().get(format="full") returns them:
\* one whose text/plain part carries data that is no base64, one whose
\* text/plain part lies inside a nested multipart part, and one with a
\* text/plain part at the top level.
SampleMessages ==
    << [snippet |-> w_bob,
        payload |-> [mimeType |-> "multipart/alternative",
                     body |-> [size |-> 0],
                     parts |-> <<Leaf("text/plain", "aGk"), Leaf("text/html", "PGI-")>>]],
       [snippet |-> w_hi_amp_bye,
        payload |-> [mimeType |-> "multipart/mixed",
                     headers |-> <<Header(w_To, w_bob \o <<"@">> \o Dot(w_github, w_com)),
                                   Header(w_from, w_bob \o <<"@">> \o Dot(w_mypaypa1, w_xyz))>>,
                     body |-> [size |-> 0],
                     parts |-> <<Multipart("multipart/alternative",
                                           <<Leaf("text/plain", "aGk="),
                                             Leaf("text/html", "PGI-")>>)>>]],
       [snippet |-> w_bob,
        payload |-> [mimeType |-> "multipart/alternative",
                     headers |-> <<Header(w_FROM,
                                          w_bob \o <<" ", "<">> \o w_bob \o <<"@">>
                                              \o Dot(w_GitHub, w_com) \o <<">">>)>>,
                     body |-> [size |-> 0],
                     parts |-> <<Leaf("text/html", "PGI-"), Leaf("text/plain", "Ynll")>>]] >>

Message(id) == SampleMessages[((id - 1) % Len(SampleMessages)) + 1]

MaxOf(S) == CHOOSE m \in S : \A x \in S : x <= m

\* users().messages().list(labelIds=["UNREAD"], maxResults=n): the ids of up to
\* n unread messages, the most recent first
RECURSIVE ListUnread(_, _)
ListUnread(labelled, n) ==
    IF n = 0 \/ labelled = {} THEN <<>>
    ELSE <<MaxOf(labelled)>> \o ListUnread(labelled \ {MaxOf(labelled)}, n - 1)

\* a faulty modify: the label stays
MarkReadForgotten(labelled, id) == labelled

\* users().messages().modify(id, {"removeLabelIds": ["UNREAD"]})
MarkRead(labelled, id) == labelled \ {id}

\* modify needs the gmail.modify scope; the API answers 403 to a credential
\* granted gmail.readonly
ModifyAllowed(scope) == scope = "gmail.modify"

-----------------------------------------------------------------------------
(* fetch_gmail: app.py 128-157 *)

\* html.unescape(s), for the character reference the snippets use
RECURSIVE HtmlUnescape(_)
HtmlUnescape(s) ==
    IF s = <<>> THEN <<>>
    ELSE IF Len(s) >= 5 /\ SubSeq(s, 1, 5) = <<"&", "a", "m", "p", ";">>
         THEN <<"&">> \o HtmlUnescape(SubSeq(s, 6, Len(s)))
         ELSE <<Head(s)>> \o HtmlUnescape(Tail(s))

\* characters of the snippet kept in the preview
PreviewLen == 80

\* html.unescape(snippet)[:80] + "..."
Preview(snippet) ==
    LET u == HtmlUnescape(snippet)
    IN  SubSeq(u, 1, IF Len(u) < PreviewLen THEN Len(u) ELSE PreviewLen) \o <<".", ".", ".">>

NoSender == [flags |-> <<>>]

FetchGmailLocal ==
    [handler |-> "fetch_gmail", scope |-> "", listed |-> FALSE, messages |-> <<>>,
     msg_id |-> 0, body_text |-> <<>>, sender_info |-> NoSender, raised |-> ""]

\* a faulty test of the list: never taken
NoMessagesIgnored(messages) == FALSE

\* not messages
NoMessages(messages) == messages = <<>>

NotFound == [status |-> 404, keys |-> {"error"}, error |-> "No unread emails found"]

\* a faulty handler: what was computed so far goes out with the error
HandleExceptionPartial(exception, loc) ==
    IF loc.sender_info # NoSender
    THEN [status |-> 500, keys |-> {"error", "sender_info"}, error |-> exception,
          sender_info |-> loc.sender_info]
    ELSE [status |-> 500, keys |-> {"error"}, error |-> exception]

\* except Exception as e: return jsonify({"error": str(e)}), 500
HandleException(exception, loc) ==
    [status |-> 500, keys |-> {"error"}, error |-> exception]

\* the class probabilities the model gives a fetched message
FetchProbPairs == {<<0, ProbScale>>, <<ProbScale, 0>>}

\* a step of the try block raised
FG_Raise(exception) ==
    /\ response' = HandleException(exception, local)
    /\ local' = [local EXCEPT !.raised = exception]
    /\ pc' = "fg_done"

\* service = get_gmail_service()
FG_Service ==
    /\ pc = "idle"
    /\ \E flow \in FlowChoices(tokenFile) :
           LET r == get_gmail_service(tokenFile, AppScope, "app", flow)
           IN  /\ tokenFile' = r.file
               /\ auth' = AuthRecord("app", tokenFile, r)
               /\ IF r.raised
                  THEN /\ response' = HandleException("consent flow failed", FetchGmailLocal)
                       /\ local' = [FetchGmailLocal EXCEPT !.raised = "consent flow failed"]
                       /\ pc' = "fg_done"
                  ELSE /\ response' = NoResponse
                       /\ local' = [FetchGmailLocal EXCEPT !.scope = r.scope]
                       /\ pc' = "fg_list"
    /\ request' = [call |-> "GET /fetch_gmail"]
    /\ calls' = [NoCalls EXCEPT !.service = 1]
    /\ UNCHANGED <<unread, history, pending>>

\* results = ...list(labelIds=["UNREAD"], maxResults=1).execute(), and the
\* test of the list
FG_List ==
    /\ pc = "fg_list"
    /\ calls' = [calls EXCEPT !.list = @ + 1]
    /\ \/ FG_Raise("HttpError")
       \/ LET messages == ListUnread(unread, 1)
          IN  IF NoMessages(messages)
              THEN /\ response' = NotFound
                   /\ local' = [local EXCEPT !.listed = TRUE, !.messages = messages]
                   /\ pc' = "fg_done"
              ELSE IF messages = <<>>
              THEN \* messages[0] of an empty list
                   /\ response' = HandleException("IndexError", local)
                   /\ local' = [local EXCEPT !.listed = TRUE, !.messages = messages,
                                             !.raised = "IndexError"]
                   /\ pc' = "fg_done"
              ELSE /\ response' = response
                   /\ local' = [local EXCEPT !.listed = TRUE, !.messages = messages,
                                             !.msg_id = messages[1]]
                   /\ pc' = "fg_get"
    /\ UNCHANGED <<request, tokenFile, unread, history, pending, auth>>

\* msg = ...get(id=msg_id, format="full").execute()
FG_Get ==
    /\ pc = "fg_get"
    /\ calls' = [calls EXCEPT !.get = @ + 1]
    /\ \/ FG_Raise("HttpError")
       \/ /\ pc' = "fg_extract"
          /\ UNCHANGED <<response, local>>
    /\ UNCHANGED <<request, tokenFile, unread, history, pending, auth>>

\* snippet, headers, body_text = extract_body(msg.get("payload", {}))
FG_Extract ==
    /\ pc = "fg_extract"
    /\ calls' = [calls EXCEPT !.extract = @ + 1]
    /\ LET r == extract_body(Message(local.msg_id).payload)
       IN  IF r.raised
           THEN FG_Raise(r.exception)
           ELSE /\ local' = [local EXCEPT !.body_text = r.text]
                /\ pc' = "fg_analyze"
                /\ UNCHANGED response
    /\ UNCHANGED <<request, tokenFile, unread, history, pending, auth>>

\* msg["payload"].get("headers", [])
HeadersOf(msg) == IF "headers" \in DOMAIN msg.payload THEN msg.payload.headers ELSE <<>>

\* sender_info = analyze_sender(headers)
FG_Analyze ==
    /\ pc = "fg_analyze"
    /\ calls' = [calls EXCEPT !.analyze = @ + 1]
    /\ local' = [local EXCEPT !.sender_info = analyze_sender(HeadersOf(Message(local.msg_id)))]
    /\ pc' = "fg_predict"
    /\ UNCHANGED <<request, response, tokenFile, unread, history, pending, auth>>

\* body_result = predict_body(body_text if body_text else snippet), and the
\* response
FG_Predict ==
    /\ pc = "fg_predict"
    /\ calls' = [calls EXCEPT !.predict = @ + 1]
    /\ \/ FG_Raise("RuntimeError")
       \/ \E probs \in FetchProbPairs :
              LET msg == Message(local.msg_id)
                  text == IF local.body_text # <<>> THEN local.body_text ELSE msg.snippet
              IN  /\ response' =
                         [status |-> 200,
                          keys |-> {"email_snippet", "body_prediction", "sender_info"},
                          email_snippet |-> Preview(msg.snippet),
                          body_prediction |-> predict_body(text, probs),
                          sender_info |-> local.sender_info]
                  /\ pc' = "fg_done"
                  /\ UNCHANGED local
    /\ UNCHANGED <<request, tokenFile, unread, history, pending, auth>>

-----------------------------------------------------------------------------
(* fetch_latest_email_text: gmail_fetch.py 22-54 *)

FetchLatestLocal ==
    [handler |-> "fetch_latest_email_text", scope |-> "", messages |-> <<>>,
     i |-> 1, email_texts |-> <<>>, ids |-> <<>>, raised |-> ""]

\* an exception leaves the function: the caller gets no list, and the texts
\* collected so far are lost
FL_Raise(exception) ==
    /\ response' = Raised(exception)
    /\ local' = [local EXCEPT !.raised = exception]
    /\ pending' = {}
    /\ pc' = "fl_done"

\* service = get_gmail_service()
FL_Service ==
    /\ pc = "idle"
    /\ \E n \in 1..MaxN : request' = [call |-> "fetch_latest_email_text", n |-> n]
    /\ \E flow \in FlowChoices(tokenFile) :
           LET r == get_gmail_service(tokenFile, GmailFetchScope, "gmail_fetch", flow)
           IN  /\ tokenFile' = r.file
               /\ auth' = AuthRecord("gmail_fetch", tokenFile, r)
               /\ IF r.raised
                  THEN /\ response' = Raised("consent flow failed")
                       /\ local' = [FetchLatestLocal EXCEPT !.raised = "consent flow failed"]
                       /\ pc' = "fl_done"
                  ELSE /\ response' = NoResponse
                       /\ local' = [FetchLatestLocal EXCEPT !.scope = r.scope]
                       /\ pc' = "fl_list"
    /\ calls' = [NoCalls EXCEPT !.service = 1]
    /\ UNCHANGED <<unread, history, pending>>

\* results = ...list(labelIds=["UNREAD"], maxResults=n).execute()
FL_List ==
    /\ pc = "fl_list"
    /\ calls' = [calls EXCEPT !.list = @ + 1]
    /\ \/ FL_Raise("HttpError")
       \/ /\ local' = [local EXCEPT !.messages = ListUnread(unread, request.n)]
          /\ pc' = "fl_loop"
          /\ UNCHANGED <<response, pending>>
    /\ UNCHANGED <<request, tokenFile, unread, history, auth>>

\* the loop body up to the append: get the message, get_body, and
\* email_texts.append(body if body else snippet)
FL_Fetch ==
    /\ pc = "fl_loop"
    /\ local.i <= Len(local.messages)
    /\ calls' = [calls EXCEPT !.get = @ + 1]
    /\ \/ FL_Raise("HttpError")
       \/ LET msg_id == local.messages[local.i]
              full_msg == Message(msg_id)
              r == get_body(full_msg.payload)
          IN  IF r.raised
              THEN FL_Raise(r.exception)
              ELSE /\ local' = [local EXCEPT
                                   !.email_texts =
                                       Append(@, IF r.text # <<>> THEN r.text
                                                 ELSE full_msg.snippet),
                                   !.ids = Append(@, msg_id)]
                   /\ pc' = "fl_modify"
                   /\ UNCHANGED <<response, pending>>
    /\ UNCHANGED <<request, tokenFile, unread, history, auth>>

\* ...modify(id=msg_id, body={"removeLabelIds": ["UNREAD"]}).execute()
FL_Modify ==
    /\ pc = "fl_modify"
    /\ calls' = [calls EXCEPT !.modify = @ + 1]
    /\ \/ /\ FL_Raise("HttpError")
          /\ UNCHANGED unread
       \/ /\ ModifyAllowed(local.scope)
          /\ unread' = MarkRead(unread, local.messages[local.i])
          /\ pending' = pending \cup {local.messages[local.i]}
          /\ local' = [local EXCEPT !.i = @ + 1]
          /\ pc' = "fl_loop"
          /\ UNCHANGED response
    /\ UNCHANGED <<request, tokenFile, history, auth>>

\* return email_texts
FL_Return ==
    /\ pc = "fl_loop"
    /\ local.i > Len(local.messages)
    /\ response' = [raised |-> FALSE, texts |-> local.email_texts, ids |-> local.ids]
    /\ history' = history \cup pending
    /\ pending' = {}
    /\ pc' = "fl_done"
    /\ UNCHANGED <<request, tokenFile, unread, calls, local, auth>>

-----------------------------------------------------------------------------
(* main of gmail_test.py, run as a program *)

\* maxResults of its list call
TestMaxResults == 5

GmailTestMain ==
    /\ pc = "idle"
    /\ request' = [call |-> "gmail_test.main"]
    /\ \E flow \in IF NeedsLogin(tokenFile) /\ ~CanRefresh(tokenFile)
                   THEN FlowOutcomes ELSE {NoFlow} :
       \E refresh \in IF NeedsLogin(tokenFile) /\ CanRefresh(tokenFile)
                      THEN RefreshOutcomes ELSE {[ok |-> TRUE]} :
           LET r == gmail_test_credentials(tokenFile, flow, refresh)
               shown == IF MaxMsgs < TestMaxResults THEN MaxMsgs ELSE TestMaxResults
           IN  /\ tokenFile' = r.file
               /\ auth' = AuthRecord("gmail_test", tokenFile, r)
               /\ response' =
                      IF r.raised THEN Raised("login failed")
                      ELSE [raised |-> FALSE,
                            printed |-> [k \in 1..shown |-> Message(MaxMsgs + 1 - k).snippet]]
    /\ calls' = [NoCalls EXCEPT !.service = 1]
    /\ local' = [handler |-> "gmail_test.main"]
    /\ pc' = "gt_done"
    /\ UNCHANGED <<unread, history, pending>>

-----------------------------------------------------------------------------
(* The environment, and the specification of the mail programs *)

DoneStates == {"fg_done", "fl_done", "gt_done"}

\* the caller has its answer; the next request starts from a clean slate
Finish ==
    /\ pc \in DoneStates
    /\ pc' = "idle"
    /\ request' = NoRequest
    /\ response' = NoResponse
    /\ calls' = NoCalls
    /\ local' = NoLocal
    /\ auth' = NoAuth
    /\ UNCHANGED <<tokenFile, unread, history, pending>>

\* time passes and the stored access token expires
Expire ==
    /\ pc \notin DoneStates
    /\ Valid(tokenFile)
    /\ tokenFile' = [tokenFile EXCEPT !.expired = TRUE]
    /\ UNCHANGED <<pc, request, response, unread, history, pending, calls, local, auth>>

\* a message is labelled unread again (by the user, in the mail client)
LabelUnread ==
    /\ pc \notin DoneStates
    /\ \E id \in MsgIds \ unread :
           /\ unread' = unread \cup {id}
           /\ history' = history \ {id}
           /\ pending' = pending \ {id}
    /\ UNCHANGED <<pc, request, response, tokenFile, calls, local, auth>>

\* the user opens a message in the mail client
UserReads ==
    /\ pc \notin DoneStates
    /\ \E id \in unread : unread' = unread \ {id}
    /\ UNCHANGED <<pc, request, response, tokenFile, history, pending, calls, local, auth>>

Init ==
    /\ pc = "idle"
    /\ request = NoRequest
    /\ response = NoResponse
    /\ tokenFile = Absent
    /\ unread \in SUBSET MsgIds
    /\ history = {}
    /\ pending = {}
    /\ calls = NoCalls
    /\ local = NoLocal
    /\ auth = NoAuth

Next ==
    \/ FG_Service \/ FG_List \/ FG_Get \/ FG_Extract \/ FG_Analyze \/ FG_Predict
    \/ FL_Service \/ FL_List \/ FL_Fetch \/ FL_Modify \/ FL_Return
    \/ GmailTestMain
    \/ Finish
    \/ Expire \/ LabelUnread \/ UserReads

Spec == Init /\ [][Next]_vars

-----------------------------------------------------------------------------
(* Properties of the mail programs *)

InFetchGmail == local.handler = "fetch_gmail"

\* the list call of this request answered, with no unread message
ListedEmpty == InFetchGmail /\ local.listed /\ local.messages = <<>>

\* C3: when the list of unread messages is empty, GET /fetch_gmail answers 404
\* with an "error" field, having fetched no message and never called the
\* classifier.
C3_EmptyListIs404 ==
    ListedEmpty =>
        /\ pc = "fg_done"
        /\ response.status = 404
        /\ "error" \in response.keys
        /\ calls.get = 0
        /\ calls.extract = 0
        /\ calls.predict = 0

\* C3 witness: a request found the mailbox without unread messages.
C3_Witness ==
    /\ ListedEmpty
    /\ unread = {}
    /\ calls.list = 1
    /\ response = NotFound

GetGmailServiceWriters == {"app", "gmail_fetch"}

\* the last get_gmail_service call found a credential in token.json that
\* get_gmail_service had written and that was still valid
FoundOwnValidCredential ==
    /\ auth.by \in GetGmailServiceWriters
    /\ Valid(auth.pre)
    /\ auth.pre.writer \in GetGmailServiceWriters

\* C6: a get_gmail_service call that finds a still valid credential written by
\* get_gmail_service reuses it: it does not run the consent flow and leaves
\* token.json as it was.
C6_ValidCredentialReused ==
    FoundOwnValidCredential =>
        /\ auth.how = "reuse"
        /\ ~auth.wrote
        /\ auth.post = auth.pre
        /\ ~auth.raised

\* C6 witness: the poller reused the credential the web application had written.
C6_Witness ==
    /\ FoundOwnValidCredential
    /\ auth.by = "gmail_fetch"
    /\ auth.pre.writer = "app"
    /\ auth.how = "reuse"

\* C7: in GET /fetch_gmail an exception at any step yields status 500 with a body
\* holding only "error"; no response carries results together with an error,
\* and no step runs twice in a request.
C7_ExceptionIs500ErrorOnly ==
    InFetchGmail =>
        /\ \A step \in DOMAIN calls : calls[step] <= 1
        /\ pc = "fg_done" =>
               /\ local.raised # "" => (response.status = 500 /\ response.keys = {"error"})
               /\ "error" \in response.keys => response.keys = {"error"}
               /\ response.status = 500 => local.raised # ""

\* C7 witness: the classifier raised after the sender had been analysed.
C7_Witness ==
    /\ InFetchGmail
    /\ pc = "fg_done"
    /\ local.raised = "RuntimeError"
    /\ local.sender_info # NoSender
    /\ response.status = 500

\* C8: a get_gmail_service call that finds an expired credential carrying a
\* refresh token refreshes it and persists the refreshed credential instead of
\* running the consent flow.
C8_RefreshOnExpiry ==
    (/\ auth.by \in GetGmailServiceWriters
     /\ CanRefresh(auth.pre)) =>
        /\ auth.how = "refresh"
        /\ auth.raised \/ (auth.wrote /\ Valid(auth.post))

\* C10: every message whose text a successful fetch_latest_email_text call
\* returned has lost the UNREAD label (unless it was labelled unread again), a
\* successful call returns no message an earlier successful call returned
\* (unless it was labelled unread again since), and it returns at most n texts.
C10_NoMessageReturnedTwice ==
    /\ [](history \cap unread = {})
    /\ [][(pc = "fl_loop" /\ pc' = "fl_done" /\ ~response'.raised) =>
              /\ Range(response'.ids) \cap history = {}
              /\ Len(response'.texts) = Len(response'.ids)
              /\ Len(response'.texts) <= request.n
              /\ calls.modify = Len(response'.ids)
              /\ Range(response'.ids) \cap unread \subseteq Range(response'.ids) \ pending ]_vars

\* C10 witness: a successful call returned a message after an earlier call had
\* returned another.
C10_Witness ==
    /\ pc = "fl_done"
    /\ ~response.raised
    /\ response.ids # <<>>
    /\ history \ Range(response.ids) # {}

=============================================================================
